---- MODULE Spec2Model ----
(***************************************************************************)
(* The Lab view of solstice (frontend/src/pages/Lab.tsx): one logical      *)
(* timeline driving two <video> elements.                                  *)
(*                                                                         *)
(* Times are integers in units of 0.05 s (10.2 s = 204).  The component    *)
(* state changes in renders; an effect whose dependencies changed in a     *)
(* render is pending until React runs it, which happens at the latest      *)
(* before the next render.                                                 *)
(***************************************************************************)
EXTENDS Integers, Sequences, FiniteSets, TLC

\* ---------------------------------------------------------------- bounds
MaxAdvance == 2     \* playback progress steps of the two elements together

\* ------------------------------------------------------------- constants
DeadBand == 2       \* 0.1 s, the tolerance of the sync effect

\* An element's duration is NaN until its metadata is read, then a number:
\* NaN is the empty tuple, the number d the tuple <<d>>
NaN == <<>>
Num(d) == <<d>>
Val(x) == x[1]
Handles == {1, 2}

\* Durations a media file reports, 95.5 s and 120.0 s
Durations == {1910, 2400}
\* Playback progress of one element between two observations: 0.1 s, 0.15 s
AdvanceSteps == {2, 3}
\* Values of the range control the user picks: 0 s, 10.05 s, 95.5 s
SeekTargets == {0, 201, 1910}
\* Values passed to handleSeek that the range control would not produce:
\* -5 s and 999 s
DirectTargets == {-100, 19980}
\* What the list request resolves to: the urls pushed into the array
UrlLists == {<<>>, <<"a">>, <<"a", "b">>}

VARIABLES
    videoUrls,      \* useState<string[]>([])
    isPlaying,      \* useState(false)
    currentTime,    \* useState(0)
    duration,       \* useState(0)
    videosReady,    \* useState(false)
    startTime,      \* useState(0)
    endTime,        \* useState(0)
    fetched,        \* the list request of the mount effect has resolved
    video,          \* the two <video> elements: duration, currentTime, paused
    metaEvent,      \* per element: "none", "queued" or "delivered"
    pendPlay,       \* the play/pause effect is scheduled and has not run
    pendSync,       \* the sync effect is scheduled and has not run
    ev,             \* the step that led to this state
    issued,         \* commands sent to the elements in that step
    ran,            \* effects that ran in that step
    setEver,        \* some element had its currentTime assigned
    ppLog,          \* the last four play()/pause() calls, oldest first
    togHist,        \* state before each of the last (at most two) clicks in a row
    readyClick,     \* the button was clicked while videosReady
    nAdvance,       \* progress steps so far
    mounted,        \* the Lab view is mounted
    arg,            \* the value handleSeek was called with in that step, if it was
    earlySeek,      \* handleSeek has run while videosReady was false
    stored,         \* the server's media directory: file names, oldest mtime first
    response        \* <<body>> of the last answer of the list endpoint, <<>> before

state == <<videoUrls, isPlaying, currentTime, duration, videosReady,
           startTime, endTime>>
vars == <<videoUrls, isPlaying, currentTime, duration, videosReady,
          startTime, endTime, fetched, video, metaEvent, pendPlay, pendSync,
          ev, issued, ran, setEver, ppLog, togHist, readyClick, nAdvance,
          mounted, arg, earlySeek, stored, response>>

\* What the Lab's own steps leave alone: the server
server == <<stored, response>>

\* ---------------------------------------------------------------- helpers
Abs(x) == IF x < 0 THEN -x ELSE x

MathMin(a, b) == IF a <= b THEN a ELSE b

\* x || 0 : NaN and 0 are falsy
OrZero(x) == IF x = NaN \/ x = Num(0) THEN 0 ELSE Val(x)

\* videoUrls.map renders one <video> per url
Rendered(i) == i <= Len(videoUrls)

\* videoRef1.current / videoRef2.current is non-null: the element of that
\* index is rendered and the view is mounted (React clears a ref on unmount)
Bound(i) == mounted /\ Rendered(i)

LastN(s, n) == IF Len(s) <= n THEN s ELSE SubSeq(s, Len(s) - n + 1, Len(s))

\* ------------------------------------------------------ the <video> element
\* Commands the component sends to an element
Cmd(i, op, t) == [h |-> i, op |-> op, t |-> t]

\* HTMLMediaElement.play() / pause()
ElemPlay(v) == [v EXCEPT !.paused = FALSE]
ElemPause(v) == [v EXCEPT !.paused = TRUE]

\* Assignment to HTMLMediaElement.currentTime: the element seeks to t, not
\* before the start and not past the end of the media once that is known
ElemSetTime(v, t) ==
    [v EXCEPT !.currentTime =
        IF t < 0 THEN 0
        ELSE IF v.duration = NaN THEN t ELSE MathMin(t, Val(v.duration))]

\* -------------------------------------------------------------- the effects
\* As PlayPauseEffect, without the test of videosReady
PlayPauseEffect_Unguarded(v) ==
    LET op == IF isPlaying THEN "play" ELSE "pause"
        c1 == IF Bound(1) THEN <<Cmd(1, op, 0)>> ELSE <<>>
        c2 == IF Bound(2) THEN <<Cmd(2, op, 0)>> ELSE <<>>
    IN [v |-> [i \in Handles |->
                 IF Bound(i)
                 THEN IF isPlaying THEN ElemPlay(v[i]) ELSE ElemPause(v[i])
                 ELSE v[i]],
        cmds |-> c1 \o c2]

\* As PlayPauseEffect, with the line for videoRef2 missing
PlayPauseEffect_FirstOnly(v) ==
    IF videosReady /\ Bound(1)
    THEN [v |-> [v EXCEPT ![1] = IF isPlaying THEN ElemPlay(@) ELSE ElemPause(@)],
          cmds |-> <<Cmd(1, IF isPlaying THEN "play" ELSE "pause", 0)>>]
    ELSE [v |-> v, cmds |-> <<>>]

\* useEffect(..., [isPlaying, videosReady]): play or pause both elements
PlayPauseEffect(v) ==
    IF videosReady
    THEN LET op == IF isPlaying THEN "play" ELSE "pause"
             c1 == IF Bound(1) THEN <<Cmd(1, op, 0)>> ELSE <<>>
             c2 == IF Bound(2) THEN <<Cmd(2, op, 0)>> ELSE <<>>
         IN [v |-> [i \in Handles |->
                      IF Bound(i)
                      THEN IF isPlaying THEN ElemPlay(v[i]) ELSE ElemPause(v[i])
                      ELSE v[i]],
             cmds |-> c1 \o c2]
    ELSE [v |-> v, cmds |-> <<>>]

\* As Drifted, with >= for >
Drifted_Inclusive(pos, t) == Abs(pos - t) >= DeadBand

\* The test of the sync effect on one element
Drifted(pos, t) == Abs(pos - t) > DeadBand

\* As SyncEffect, pausing each element it pulls back
SyncEffect_Pausing(v) ==
    IF ~videosReady
    THEN [v |-> v, cmds |-> <<>>]
    ELSE LET fix(i) == Bound(i) /\ Drifted(v[i].currentTime, currentTime)
             c(i) == IF fix(i)
                     THEN <<Cmd(i, "pause", 0), Cmd(i, "set", currentTime)>>
                     ELSE <<>>
         IN [v |-> [i \in Handles |->
                      IF fix(i)
                      THEN ElemSetTime(ElemPause(v[i]), currentTime)
                      ELSE v[i]],
             cmds |-> c(1) \o c(2)]

\* useEffect(..., [currentTime, videosReady]): pull a drifted element back
SyncEffect(v) ==
    IF ~videosReady
    THEN [v |-> v, cmds |-> <<>>]
    ELSE LET fix(i) == Bound(i) /\ Drifted(v[i].currentTime, currentTime)
             c1 == IF fix(1) THEN <<Cmd(1, "set", currentTime)>> ELSE <<>>
             c2 == IF fix(2) THEN <<Cmd(2, "set", currentTime)>> ELSE <<>>
         IN [v |-> [i \in Handles |->
                      IF fix(i) THEN ElemSetTime(v[i], currentTime) ELSE v[i]],
             cmds |-> c1 \o c2]

\* The scheduled effects run, in the order the component declares them
Flush(v) ==
    LET a == IF pendPlay THEN PlayPauseEffect(v) ELSE [v |-> v, cmds |-> <<>>]
        b == IF pendSync THEN SyncEffect(a.v) ELSE [v |-> a.v, cmds |-> <<>>]
    IN [v |-> b.v, cmds |-> a.cmds \o b.cmds,
        ran |-> (IF pendPlay THEN {"play"} ELSE {}) \cup
                (IF pendSync THEN {"sync"} ELSE {})]

\* play()/pause() calls among a step's commands
PlayPause(cmds) == SelectSeq(cmds, LAMBDA c : c.op \in {"play", "pause"})

\* Bookkeeping of the commands a step sent
Record(cmds) ==
    /\ issued' = cmds
    /\ setEver' = (setEver \/ \E k \in 1..Len(cmds) : cmds[k].op = "set")
    /\ ppLog' = LastN(ppLog \o [k \in 1..Len(PlayPause(cmds)) |->
                                  <<PlayPause(cmds)[k].h, PlayPause(cmds)[k].op>>], 4)

\* As PlayPauseDeps, with videosReady left out of the array
PlayPauseDeps_OnlyPlaying(ip, vr) == <<ip>>

\* The dependency arrays of the two effects
PlayPauseDeps(ip, vr) == <<ip, vr>>
SyncDeps(ct, vr) == <<ct, vr>>

\* As Render, but a render drops the effects still scheduled and schedules
\* them once for the new state
Render_Coalesce(v0, body, urls, ip, ct, du, vr, st, et) ==
    /\ videoUrls' = urls
    /\ isPlaying' = ip
    /\ currentTime' = ct
    /\ duration' = du
    /\ videosReady' = vr
    /\ startTime' = st
    /\ endTime' = et
    /\ video' = v0
    /\ ran' = {}
    /\ Record(body)
    /\ pendPlay' = (pendPlay \/ <<ip, vr>> # <<isPlaying, videosReady>>)
    /\ pendSync' = (pendSync \/ <<ct, vr>> # <<currentTime, videosReady>>)

\* A handler has run: v0 and body are the elements and the commands after the
\* handler's own statements, the other arguments the state it set.  If the
\* state changed React renders: effects still scheduled run first, then the
\* new state is committed and the effects whose dependencies changed are
\* scheduled.  The setters of an unmounted component do nothing.
Render(v0, body, urls, ip, ct, du, vr, st, et) ==
    LET changed == mounted /\ <<urls, ip, ct, du, vr, st, et>> # state
        fl == IF changed THEN Flush(v0) ELSE [v |-> v0, cmds |-> <<>>, ran |-> {}]
    IN /\ videoUrls' = IF mounted THEN urls ELSE videoUrls
       /\ isPlaying' = IF mounted THEN ip ELSE isPlaying
       /\ currentTime' = IF mounted THEN ct ELSE currentTime
       /\ duration' = IF mounted THEN du ELSE duration
       /\ videosReady' = IF mounted THEN vr ELSE videosReady
       /\ startTime' = IF mounted THEN st ELSE startTime
       /\ endTime' = IF mounted THEN et ELSE endTime
       /\ video' = fl.v
       /\ ran' = fl.ran
       /\ Record(body \o fl.cmds)
       /\ pendPlay' = IF changed
                      THEN PlayPauseDeps(ip, vr) # PlayPauseDeps(isPlaying, videosReady)
                      ELSE pendPlay
       /\ pendSync' = IF changed
                      THEN SyncDeps(ct, vr) # SyncDeps(currentTime, videosReady)
                      ELSE pendSync

\* ------------------------------------------------------------ initial state
\* The component is mounted, its effects have run once (with videosReady
\* false they do nothing) and the list request is in flight.
Init ==
    /\ videoUrls = <<>>
    /\ isPlaying = FALSE
    /\ currentTime = 0
    /\ duration = 0
    /\ videosReady = FALSE
    /\ startTime = 0
    /\ endTime = 0
    /\ fetched = FALSE
    /\ video = [i \in Handles |-> [duration |-> NaN, currentTime |-> 0, paused |-> TRUE]]
    /\ metaEvent = [i \in Handles |-> "none"]
    /\ pendPlay = FALSE
    /\ pendSync = FALSE
    /\ ev = "mount"
    /\ issued = <<>>
    /\ ran = {}
    /\ setEver = FALSE
    /\ ppLog = <<>>
    /\ togHist = <<>>
    /\ readyClick = FALSE
    /\ nAdvance = 0
    /\ mounted = TRUE
    /\ arg = <<>>
    /\ earlySeek = FALSE
    /\ stored = <<>>
    /\ response = <<>>

\* ------------------------------------------------------------- the handlers
\* The list request resolves: setVideoUrls(urls)
FetchResolved ==
    /\ ~fetched
    /\ \E urls \in UrlLists :
         Render(video, <<>>, urls, isPlaying, currentTime, duration,
                videosReady, startTime, endTime)
    /\ fetched' = TRUE
    /\ ev' = "fetch"
    /\ togHist' = <<>>
    /\ arg' = <<>>
    /\ UNCHANGED <<metaEvent, readyClick, nAdvance, mounted, earlySeek, server>>

\* As MinDuration, reading the first element only
MinDuration_First(v) == OrZero(v[1].duration)

\* Math.min(videoRef1.current.duration || 0, videoRef2.current.duration || 0)
MinDuration(v) == MathMin(OrZero(v[1].duration), OrZero(v[2].duration))

\* As handleLoadedMetadata, without the test of the two refs
handleLoadedMetadata_NoRefTest ==
    Render(video, <<>>, videoUrls, isPlaying, currentTime,
           MinDuration(video), TRUE, 0, MinDuration(video))

\* As handleLoadedMetadata, with setVideosReady(!videosReady)
handleLoadedMetadata_Flip ==
    IF Bound(1) /\ Bound(2)
    THEN Render(video, <<>>, videoUrls, isPlaying, currentTime,
                MinDuration(video), ~videosReady, 0, MinDuration(video))
    ELSE Render(video, <<>>, videoUrls, isPlaying, currentTime, duration,
                videosReady, startTime, endTime)

handleLoadedMetadata ==
    IF Bound(1) /\ Bound(2)
    THEN Render(video, <<>>, videoUrls, isPlaying, currentTime,
                MinDuration(video), TRUE, 0, MinDuration(video))
    ELSE Render(video, <<>>, videoUrls, isPlaying, currentTime, duration,
                videosReady, startTime, endTime)

\* onLoadedMetadata of element i
MetadataLoaded(i) ==
    /\ metaEvent[i] = "queued"
    /\ handleLoadedMetadata
    /\ metaEvent' = [metaEvent EXCEPT ![i] = "delivered"]
    /\ ev' = "meta"
    /\ togHist' = <<>>
    /\ arg' = <<>>
    /\ UNCHANGED <<fetched, readyClick, nAdvance, mounted, earlySeek, server>>

\* As Mid, the smaller of the two
Mid_Min(t1, t2) == MathMin(t1, t2)

\* (t1 + t2) / 2
Mid(t1, t2) == (t1 + t2) \div 2

\* As handleTimeUpdate, without the test of videosReady
handleTimeUpdate_Unguarded ==
    IF Bound(1) /\ Bound(2)
    THEN Render(video, <<>>, videoUrls, isPlaying,
                Mid(video[1].currentTime, video[2].currentTime),
                duration, videosReady, startTime, endTime)
    ELSE Render(video, <<>>, videoUrls, isPlaying, currentTime, duration,
                videosReady, startTime, endTime)

handleTimeUpdate ==
    IF videosReady /\ Bound(1) /\ Bound(2)
    THEN Render(video, <<>>, videoUrls, isPlaying,
                Mid(video[1].currentTime, video[2].currentTime),
                duration, videosReady, startTime, endTime)
    ELSE Render(video, <<>>, videoUrls, isPlaying, currentTime, duration,
                videosReady, startTime, endTime)

\* onTimeUpdate of element i.  The model's times lie on a grid of 0.05 s; the
\* event is taken at instants where the mean of the two positions does too.
TimeUpdate(i) ==
    /\ Rendered(i)
    /\ video[i].duration # NaN
    /\ (video[1].currentTime + video[2].currentTime) % 2 = 0
    /\ handleTimeUpdate
    /\ ev' = "time"
    /\ togHist' = <<>>
    /\ arg' = <<>>
    /\ UNCHANGED <<fetched, metaEvent, readyClick, nAdvance, mounted, earlySeek,
                   server>>

\* onClick of the button: setIsPlaying(!isPlaying)
Toggle ==
    /\ Render(video, <<>>, videoUrls, ~isPlaying, currentTime, duration,
              videosReady, startTime, endTime)
    /\ ev' = "toggle"
    /\ togHist' = IF mounted
                  THEN LastN(Append(togHist, [wasPlaying |-> isPlaying,
                                              wasReady |-> videosReady]), 2)
                  ELSE togHist
    /\ readyClick' = (readyClick \/ (mounted /\ videosReady))
    /\ arg' = <<>>
    /\ UNCHANGED <<fetched, metaEvent, nAdvance, mounted, earlySeek, server>>

\* As handleSeek, assigning to the elements without the test of the refs
handleSeek_NoRefTest(time) ==
    LET c1 == IF Rendered(1) THEN <<Cmd(1, "set", time)>> ELSE <<>>
        c2 == IF Rendered(2) THEN <<Cmd(2, "set", time)>> ELSE <<>>
        v0 == [i \in Handles |->
                 IF Rendered(i) THEN ElemSetTime(video[i], time) ELSE video[i]]
    IN Render(v0, c1 \o c2, videoUrls, isPlaying, time, duration,
              videosReady, startTime, endTime)

\* As handleSeek, with the value clamped to [startTime, endTime] first
handleSeek_Clamped(time) ==
    LET tc == IF time < startTime THEN startTime
              ELSE IF time > endTime THEN endTime ELSE time
        c1 == IF Bound(1) THEN <<Cmd(1, "set", tc)>> ELSE <<>>
        c2 == IF Bound(2) THEN <<Cmd(2, "set", tc)>> ELSE <<>>
        v0 == [i \in Handles |->
                 IF Bound(i) THEN ElemSetTime(video[i], tc) ELSE video[i]]
    IN Render(v0, c1 \o c2, videoUrls, isPlaying, tc, duration,
              videosReady, startTime, endTime)

handleSeek(time) ==
    LET c1 == IF Bound(1) THEN <<Cmd(1, "set", time)>> ELSE <<>>
        c2 == IF Bound(2) THEN <<Cmd(2, "set", time)>> ELSE <<>>
        v0 == [i \in Handles |->
                 IF Bound(i) THEN ElemSetTime(video[i], time) ELSE video[i]]
    IN Render(v0, c1 \o c2, videoUrls, isPlaying, time, duration,
              videosReady, startTime, endTime)

\* onChange of the range control: min={startTime} max={endTime}
\* disabled={!videosReady}
Seek ==
    /\ videosReady
    /\ \E t \in SeekTargets :
         /\ startTime <= t
         /\ t <= endTime
         /\ handleSeek(t)
         /\ arg' = <<t>>
    /\ ev' = "seek"
    /\ togHist' = <<>>
    /\ UNCHANGED <<fetched, metaEvent, readyClick, nAdvance, mounted, earlySeek,
                   server>>

\* handleSeek called with a value the range control did not bound, at any
\* time: the handler itself tests neither videosReady nor the range
DirectSeek ==
    /\ \E t \in DirectTargets :
         /\ handleSeek(t)
         /\ arg' = <<t>>
    /\ ev' = "seek"
    /\ togHist' = <<>>
    /\ earlySeek' = (earlySeek \/ ~videosReady)
    /\ UNCHANGED <<fetched, metaEvent, readyClick, nAdvance, mounted, server>>

\* The view unmounts (the route changes).  React runs the effects still
\* scheduled, then detaches the elements and clears the refs; the effects
\* have no cleanup and the list request is not aborted.
Unmount ==
    /\ mounted
    /\ mounted' = FALSE
    /\ video' = Flush(video).v
    /\ ran' = Flush(video).ran
    /\ Record(Flush(video).cmds)
    /\ pendPlay' = FALSE
    /\ pendSync' = FALSE
    /\ ev' = "unmount"
    /\ arg' = <<>>
    /\ togHist' = <<>>
    /\ UNCHANGED <<state, fetched, metaEvent, readyClick, nAdvance, earlySeek,
                   server>>

\* React runs the scheduled effects
RunEffects ==
    /\ pendPlay \/ pendSync
    /\ video' = Flush(video).v
    /\ ran' = Flush(video).ran
    /\ Record(Flush(video).cmds)
    /\ pendPlay' = FALSE
    /\ pendSync' = FALSE
    /\ ev' = "effects"
    /\ arg' = <<>>
    /\ UNCHANGED <<state, fetched, metaEvent, togHist, readyClick, nAdvance,
                   mounted, earlySeek, server>>

\* ------------------------------------------------------- the two elements
\* Element i has read the metadata of its source: its duration is known and
\* loadedmetadata is queued
LoadMeta(i) ==
    /\ Bound(i)
    /\ video[i].duration = NaN
    /\ \E d \in Durations :
         video' = [video EXCEPT ![i] =
                     [@ EXCEPT !.duration = Num(d),
                               !.currentTime = MathMin(@, d)]]
    /\ metaEvent' = [metaEvent EXCEPT ![i] = "queued"]
    /\ ev' = "load"
    /\ ran' = {}
    /\ Record(<<>>)
    /\ arg' = <<>>
    /\ UNCHANGED <<state, fetched, pendPlay, pendSync, togHist, readyClick,
                   nAdvance, mounted, earlySeek, server>>

\* Element i, playing, moves its position forward
Advance(i) ==
    /\ Bound(i)
    /\ ~video[i].paused
    /\ video[i].duration # NaN
    /\ video[i].currentTime < Val(video[i].duration)
    /\ nAdvance < MaxAdvance
    /\ \E s \in AdvanceSteps :
         video' = [video EXCEPT ![i].currentTime = MathMin(@ + s, Val(video[i].duration))]
    /\ nAdvance' = nAdvance + 1
    /\ ev' = "advance"
    /\ ran' = {}
    /\ Record(<<>>)
    /\ arg' = <<>>
    /\ UNCHANGED <<state, fetched, metaEvent, pendPlay, pendSync, togHist,
                   readyClick, mounted, earlySeek, server>>

\* -------------------------------------------------------------- the server
\* File names a client uploads: <<stem, extension>>
FileNames == {<<"a", ".mp4">>, <<"b", ".webm">>, <<"c", ".ogg">>, <<"notes", ".txt">>}

\* f.endswith(('.mp4', '.webm', '.ogg'))
IsVideo(f) == f[2] \in {".mp4", ".webm", ".ogg"}

\* request.build_absolute_uri(settings.MEDIA_URL + name)
Url(f) == <<"/media/">> \o f

\* The listing filtered to videos, sorted by modification time
SortedVideos == SelectSeq(stored, IsVideo)

\* VideoUploadView.post: the file is written under its own name, which makes
\* it the most recently modified one
Upload ==
    /\ \E f \in FileNames :
         stored' = Append(SelectSeq(stored, LAMBDA g : g # f), f)
    /\ ev' = "upload"
    /\ ran' = {}
    /\ Record(<<>>)
    /\ arg' = <<>>
    /\ UNCHANGED <<state, fetched, video, metaEvent, pendPlay, pendSync, togHist,
                   readyClick, nAdvance, mounted, earlySeek, response>>

\* VideoListView.get
List ==
    /\ LET videos == SortedVideos
           video_url == IF videos # <<>> THEN Url(videos[Len(videos)]) ELSE <<>>
       IN response' = <<[video1 |-> video_url, video2 |-> video_url]>>
    /\ ev' = "list"
    /\ ran' = {}
    /\ Record(<<>>)
    /\ arg' = <<>>
    /\ UNCHANGED <<state, fetched, video, metaEvent, pendPlay, pendSync, togHist,
                   readyClick, nAdvance, mounted, earlySeek, stored>>

\* if (data.video1) urls.push(data.video1); if (data.video2) urls.push(...)
UrlsOf(data) ==
    (IF data.video1 # <<>> THEN <<data.video1>> ELSE <<>>) \o
    (IF data.video2 # <<>> THEN <<data.video2>> ELSE <<>>)

\* The list request resolves with the server's answer: setVideoUrls(urls)
ListResolved ==
    /\ ~fetched
    /\ response # <<>>
    /\ Render(video, <<>>, UrlsOf(response[1]), isPlaying, currentTime, duration,
              videosReady, startTime, endTime)
    /\ fetched' = TRUE
    /\ ev' = "fetch"
    /\ togHist' = <<>>
    /\ arg' = <<>>
    /\ UNCHANGED <<metaEvent, readyClick, nAdvance, mounted, earlySeek, server>>

Next ==
    \/ FetchResolved
    \/ \E i \in Handles : MetadataLoaded(i)
    \/ \E i \in Handles : TimeUpdate(i)
    \/ Toggle
    \/ Seek
    \/ RunEffects
    \/ \E i \in Handles : LoadMeta(i)
    \/ \E i \in Handles : Advance(i)

Spec == Init /\ [][Next]_vars

\* The Lab with handleSeek also called directly, the elements at rest (their
\* positions move by assignment only)
NextDirect ==
    \/ FetchResolved
    \/ \E i \in Handles : MetadataLoaded(i)
    \/ \E i \in Handles : TimeUpdate(i)
    \/ Toggle
    \/ Seek
    \/ DirectSeek
    \/ RunEffects
    \/ \E i \in Handles : LoadMeta(i)

SpecDirect == Init /\ [][NextDirect]_vars

\* The Lab with its unmount; the handlers may still be called afterwards
NextTeardown ==
    \/ FetchResolved
    \/ \E i \in Handles : MetadataLoaded(i)
    \/ \E i \in Handles : TimeUpdate(i)
    \/ Toggle
    \/ Seek
    \/ RunEffects
    \/ \E i \in Handles : LoadMeta(i)
    \/ \E i \in Handles : Advance(i)
    \/ Unmount

SpecTeardown == Init /\ [][NextTeardown]_vars

\* The server with its clients: uploads, the list endpoint, and the Lab that
\* binds what the endpoint answered
NextList ==
    \/ Upload
    \/ List
    \/ ListResolved
    \/ \E i \in Handles : LoadMeta(i)
    \/ \E i \in Handles : MetadataLoaded(i)

SpecList == Init /\ [][NextList]_vars

TypeOK ==
    /\ isPlaying \in BOOLEAN
    /\ videosReady \in BOOLEAN
    /\ currentTime \in Int
    /\ duration \in Nat
    /\ videoUrls \in UrlLists

\* ================================================================ properties
Delivered(i) == metaEvent[i] = "delivered"

Known(i) == video[i].duration # NaN

PlayOp == IF isPlaying THEN "play" ELSE "pause"

\* C1: with two bound handles, ready is true if and only if each of the two
\* handles has delivered at least one metadata-loaded notification.
ReadyIffBothDelivered ==
    Bound(2) => (videosReady <=> (Delivered(1) /\ Delivered(2)))

\* C2: in the step in which ready becomes true, duration is the minimum of
\* the two handles' reported durations, startTime = 0, endTime = duration and
\* currentTime = 0.
DurationAtReadiness ==
    [][(~videosReady /\ videosReady') =>
          /\ Known(1) /\ Known(2)
          /\ duration' = MathMin(Val(video[1].duration), Val(video[2].duration))
          /\ startTime' = 0
          /\ endTime' = duration'
          /\ currentTime' = 0]_vars

\* C3: while ready is false no play(), pause() or position assignment has
\* been sent to either element.
NoCommandBeforeReady ==
    ~videosReady => (ppLog = <<>> /\ ~setEver /\ issued = <<>>)

\* C3 happens: the button was clicked and a time update handled while an
\* element had its metadata and ready was still false.
NoCommandBeforeReadyCase ==
    /\ ~videosReady
    /\ Bound(2)
    /\ isPlaying
    /\ ev = "time"

\* C4 as stated: a play() reaches the elements only after a click made while
\* ready; a click made before readiness never starts playback.
NoPlayFromEarlyClick ==
    ~readyClick => \A k \in 1..Len(ppLog) : ppLog[k][2] # "play"

\* C4 as amended: when ready has become true and the button was not clicked
\* since, the play/pause effect, once run, has sent to both elements the
\* command of the intent stored before readiness: play() if isPlaying.
EarlyClickStartsPlayback ==
    (videosReady /\ ~readyClick /\ ~pendPlay) =>
        ppLog = << <<1, PlayOp>>, <<2, PlayOp>> >>

\* C4 happens: clicked before ready, ready arrived, the effect has run.
EarlyClickStartsPlaybackCase ==
    /\ videosReady
    /\ ~readyClick
    /\ ~pendPlay
    /\ isPlaying
    /\ ~video[1].paused
    /\ ~video[2].paused

\* C5: while ready, startTime <= currentTime <= endTime <= duration.
TimelineBounds ==
    videosReady =>
        /\ startTime <= currentTime
        /\ currentTime <= endTime
        /\ endTime <= duration

\* C6: once ready, duration, startTime and endTime never change.
DurationFixedOnceReady ==
    [][videosReady =>
          /\ duration' = duration
          /\ startTime' = startTime
          /\ endTime' = endTime]_vars

\* The sync effect ran in this step; in a step of handleSeek it ran after the
\* handler had moved both elements to the value sought
SyncRan == "sync" \in ran' /\ videosReady

PosAtSync(i) ==
    IF ev' = "seek"
    THEN ElemSetTime(video[i], currentTime').currentTime
    ELSE video[i].currentTime

Corrected(i) ==
    \E k \in 1..Len(issued') : issued'[k] = Cmd(i, "set", currentTime)

MidpointTracking ==
    [][(ev' = "time" /\ videosReady) =>
          2 * currentTime' = video[1].currentTime + video[2].currentTime]_vars

\* C8 happens: a time update was handled while the elements were apart.
MidpointTrackingCase ==
    /\ ev = "time"
    /\ videosReady
    /\ ran = {}
    /\ video[1].currentTime # video[2].currentTime
    /\ 2 * currentTime = video[1].currentTime + video[2].currentTime

\* C9: a click flips isPlaying and schedules the play/pause effect once; the
\* effect, run while ready, sends the same command to element 1 and to
\* element 2, play() if isPlaying and pause() if not; play()/pause() is sent
\* by nothing else; and when no run is outstanding both elements hold the
\* command of isPlaying.
ToggleCommands ==
    /\ [][/\ ev' = "toggle" => (isPlaying' = ~isPlaying /\ pendPlay')
          /\ ("play" \in ran' /\ videosReady) =>
                PlayPause(issued') = <<Cmd(1, PlayOp, 0), Cmd(2, PlayOp, 0)>>
          /\ PlayPause(issued') # <<>> => ("play" \in ran' /\ videosReady)]_vars
    /\ [](videosReady /\ ~pendPlay =>
             /\ LastN(ppLog, 2) = << <<1, PlayOp>>, <<2, PlayOp>> >>
             /\ video[1].paused = ~isPlaying
             /\ video[2].paused = ~isPlaying)

\* C9 happens: after a click made while ready the effect has run and both
\* elements play.
ToggleCommandsCase ==
    /\ videosReady
    /\ readyClick
    /\ ev = "effects"
    /\ isPlaying
    /\ issued = <<Cmd(1, "play", 0), Cmd(2, "play", 0)>>

FirstOp == IF togHist[1].wasPlaying THEN "pause" ELSE "play"
SecondOp == IF togHist[1].wasPlaying THEN "play" ELSE "pause"

\* C10: after two clicks in a row, the first made while ready, isPlaying has
\* its value from before the first; the elements have received the first
\* click's command and then, once the second click's effect has run, the
\* opposite command, each to both elements and in that order.
IdempotentToggle ==
    (Len(togHist) = 2 /\ togHist[1].wasReady) =>
        /\ isPlaying = togHist[1].wasPlaying
        /\ pendPlay => LastN(ppLog, 2) = << <<1, FirstOp>>, <<2, FirstOp>> >>
        /\ ~pendPlay => ppLog = << <<1, FirstOp>>, <<2, FirstOp>>,
                                   <<1, SecondOp>>, <<2, SecondOp>> >>

\* C10 happens: the second click came while the first click's effect was
\* still scheduled, and that effect ran in the second click's render.
IdempotentToggleCase ==
    /\ Len(togHist) = 2
    /\ togHist[1].wasReady
    /\ ev = "toggle"
    /\ "play" \in ran
    /\ issued = <<Cmd(1, FirstOp, 0), Cmd(2, FirstOp, 0)>>

\* C11: handleSeek(t) stores exactly t in currentTime and assigns t to the
\* position of each bound element in the same step, whatever startTime and
\* endTime are; an element whose media contains t is then at t (unless an
\* older sync effect, still scheduled, ran in the same render).
SeekExact ==
    [][ev' = "seek" =>
          /\ currentTime' = arg'[1]
          /\ \A i \in Handles : Bound(i) =>
                /\ \E k \in 1..Len(issued') : issued'[k] = Cmd(i, "set", arg'[1])
                /\ (/\ ~pendSync
                    /\ 0 <= arg'[1]
                    /\ Known(i) => arg'[1] <= Val(video[i].duration))
                      => video'[i].currentTime = arg'[1]]_vars

\* C11 happens: 999 s was passed while ready and is stored, above endTime.
SeekExactCase ==
    /\ ev = "seek"
    /\ videosReady
    /\ arg = <<19980>>
    /\ currentTime = 19980
    /\ endTime < 19980
    /\ issued = <<Cmd(1, "set", 19980), Cmd(2, "set", 19980)>>

\* C12: a metadata-loaded notification handled while a rendered element has
\* no duration yet (NaN) does not make ready true and gives duration no value.
NonFiniteNotLoaded ==
    [][(ev' = "meta" /\ \E i \in Handles : Rendered(i) /\ ~Known(i)) =>
          (videosReady' = videosReady /\ duration' = duration)]_vars

\* C13: once the list request has resolved to zero or one url, ready is
\* false and no command has been sent to any element.
DegenerateSources ==
    (fetched /\ Len(videoUrls) < 2) =>
        /\ ~videosReady
        /\ issued = <<>>
        /\ ppLog = <<>>
        /\ ~setEver
        /\ \A i \in Handles : video[i].paused /\ video[i].currentTime = 0

\* C13 happens: one url; its element delivered its metadata, the button was
\* clicked and a time update was handled.
DegenerateSourcesCase ==
    /\ fetched
    /\ Len(videoUrls) = 1
    /\ Delivered(1)
    /\ isPlaying
    /\ ev = "time"
    /\ ~pendPlay

\* C14: once both elements have delivered their notification, ready is true,
\* duration is the minimum of the two reported durations, startTime is 0 and
\* endTime is duration, whatever the order of the events before.
InterleavingIndependence ==
    (Delivered(1) /\ Delivered(2)) =>
        /\ videosReady
        /\ duration = MathMin(Val(video[1].duration), Val(video[2].duration))
        /\ startTime = 0
        /\ endTime = duration

\* C14 happens: the second notification has just been handled, after
\* events handled in between had moved currentTime; the first element
\* reports the longer duration.
InterleavingIndependenceCase ==
    /\ ev = "meta"
    /\ Delivered(1)
    /\ Delivered(2)
    /\ Val(video[1].duration) > Val(video[2].duration)
    /\ currentTime > 0

\* C15: after the unmount no step sends a command to an element or changes
\* one, whatever handler is called; and no step ever addresses an element
\* whose ref is null.
TeardownSafety ==
    [][/\ ~mounted => (issued' = <<>> /\ video' = video /\ ~mounted')
       /\ \A k \in 1..Len(issued') : Bound(issued'[k].h)]_vars

\* C15 happens: two elements were playing at the unmount, and handleSeek was
\* called afterwards.
TeardownSafetyCase ==
    /\ ~mounted
    /\ ev = "seek"
    /\ Len(videoUrls) = 2
    /\ ~video[1].paused
    /\ ~video[2].paused
    /\ issued = <<>>

\* C16: a seek and a run of the sync effect leave isPlaying, videosReady,
\* duration, startTime and endTime as they were; play() or pause() is sent in
\* such a step only by the play/pause effect an earlier click had scheduled;
\* isPlaying changes in no step but a click on the button.
PlaySubstatePreserved ==
    [][/\ (ev' \in {"seek", "effects"}) =>
             /\ UNCHANGED <<isPlaying, videosReady, duration, startTime, endTime>>
             /\ ~pendPlay => /\ PlayPause(issued') = <<>>
                             /\ \A i \in Handles : video'[i].paused = video[i].paused
       /\ isPlaying' # isPlaying => ev' = "toggle"]_vars

\* C16 happens: while playing, the sync effect alone ran and pulled both
\* elements back; both are still playing.
PlaySubstatePreservedCase ==
    /\ ev = "effects"
    /\ ran = {"sync"}
    /\ videosReady
    /\ isPlaying
    /\ issued = <<Cmd(1, "set", currentTime), Cmd(2, "set", currentTime)>>
    /\ ~video[1].paused
    /\ ~video[2].paused

\* C17: when the list endpoint answers with at least two videos stored, its
\* video1 and video2 are the two most recently modified ones, two different
\* files.
TwoLatestVideos ==
    [][ev' = "list" =>
         LET n == Len(SortedVideos)
             data == response'[1]
         IN n >= 2 =>
              {data.video1, data.video2} =
                  {Url(SortedVideos[n]), Url(SortedVideos[n - 1])}]_vars

\* C18: when the sync effect runs right after a time update scheduled it,
\* while ready, each element ends within 0.1 s of currentTime and the two
\* elements within 0.2 s of each other.
BoundedDriftAfterSync ==
    [][(/\ ev = "time"
        /\ pendSync
        /\ videosReady
        /\ Bound(1)
        /\ Bound(2)
        /\ ev' = "effects") =>
           /\ \A i \in Handles :
                 Abs(video'[i].currentTime - currentTime') <= DeadBand
           /\ Abs(video'[1].currentTime - video'[2].currentTime) <= 2 * DeadBand]_vars

\* C19: a time update handled while videosReady is false changes no state of
\* the component and sends no command; so currentTime is still 0 in the step
\* that makes videosReady true, unless handleSeek had been called before it.
EarlyTimeUpdateIgnored ==
    [][/\ (ev' = "time" /\ ~videosReady) =>
             /\ UNCHANGED state
             /\ issued' = <<>>
             /\ video' = video
       /\ (~videosReady /\ videosReady' /\ ~earlySeek) => currentTime' = 0]_vars

\* C19 happens: both elements are bound, not ready, and a time update was
\* handled while the mean of the two positions differed from currentTime.
EarlyTimeUpdateIgnoredCase ==
    /\ ev = "time"
    /\ ~videosReady
    /\ Bound(1)
    /\ Bound(2)
    /\ Mid(video[1].currentTime, video[2].currentTime) # currentTime

\* C20: once videosReady is true every step leaves it true, and leaves the
\* two sources and the two bound elements in place.
ReadinessMonotone ==
    [][videosReady => /\ videosReady'
                      /\ videoUrls' = videoUrls
                      /\ mounted' => \A i \in Handles : Bound(i)']_vars

\* C20 happens: ready since the first notification, then a click and a seek
\* while ready, then the second notification is handled; still ready.
ReadinessMonotoneCase ==
    /\ ev = "meta"
    /\ videosReady
    /\ Delivered(1)
    /\ Delivered(2)
    /\ readyClick
    /\ setEver
    /\ isPlaying

====
